---- MODULE Spec2Model ----
(***************************************************************************)
(* eth-swap-tracker: the debounced batch aggregator of src/index.ts and    *)
(* the pricing and persistence pass of src/webhooksUtil.ts                 *)
(* (fillUSDAmounts, the definition at lines 353-482, which is the one in   *)
(* effect: it is declared after the one at lines 80-176).                  *)
(*                                                                         *)
(* Execution model: one cooperative event loop.  A processing cycle        *)
(* (parseSwapEvents) is a record of its local variables and a position pc; *)
(* it is either suspended at an await of an external call or inside a      *)
(* synchronous section.  The log handler, the timer and the clock only act *)
(* while no cycle is inside a synchronous section.                         *)
(*                                                                         *)
(* Spec is the whole program; SpecDecode is the decoding loop of           *)
(* parseSwapEvents and SpecFill is fillUSDAmounts, each from the states    *)
(* at its entry.                                                           *)
(*                                                                         *)
(* Time is counted in ticks of 100 ms.  Decimal values are exact fractions *)
(* [n, d]; d = 0 encodes decimal.js's Infinity (n # 0) and NaN (n = 0).    *)
(***************************************************************************)
EXTENDS Integers, Sequences, FiniteSets, TLC

\* ------------------------------------------------------------------ bounds
MaxLogs == 3     \* logs pushed by the subscription in one run
MaxTime == 6     \* horizon of the clock, in ticks
MaxBatch == 2    \* length of the batches handed to fillUSDAmounts in SpecFill

\* setTimeout(parseSwapEvents, 300): 300 ms = 3 ticks
QuietPeriod == 3

\* ------------------------------------------------------------- optionals
None == <<>>
Some(v) == <<v>>
IsSome(o) == o # <<>>
Val(o) == o[1]

\* ---------------------------------------------------------------- Decimal
Abs(n) == IF n < 0 THEN -n ELSE n
Sign(n) == IF n < 0 THEN -1 ELSE IF n = 0 THEN 0 ELSE 1

RECURSIVE GCD(_, _)
GCD(a, b) == IF b = 0 THEN a ELSE GCD(b, a % b)

\* new Decimal(...): a canonical fraction
Decimal(n, d) ==
  IF d = 0 THEN [n |-> Sign(n), d |-> 0]
  ELSE LET g == GCD(Abs(n), Abs(d))
       IN  [n |-> (Sign(d) * n) \div g, d |-> Abs(d) \div g]

Zero == Decimal(0, 1)
One == Decimal(1, 1)

times(a, b) == Decimal(a.n * b.n, a.d * b.d)
dividedBy(a, b) == Decimal(a.n * b.d, a.d * b.n)
abs(a) == [n |-> Abs(a.n), d |-> a.d]
\* Decimal.isPositive(): the sign is not negative (zero is "positive")
isPositive(a) == a.n >= 0 /\ ~(a.n = 0 /\ a.d = 0)

RECURSIVE Pow10(_)
Pow10(k) == IF k = 0 THEN 1 ELSE 10 * Pow10(k - 1)
\* new Decimal(ethers.formatUnits(amount, decimals))
formatUnits(amount, decimals) == Decimal(amount, Pow10(decimals))

\* -------------------------------------------------------------------- Map
EmptyMap == [x \in {} |-> 0]
\* a map that never finds a key
HasNever(m, k) == FALSE
Has(m, k) == k \in DOMAIN m
\* a set that drops the other entries
SetForgetting(m, k, v) == [x \in {k} |-> v]
Set(m, k, v) == [x \in DOMAIN m \cup {k} |-> IF x = k THEN v ELSE m[x]]

\* ------------------------------------------------------------- the chain
UNISWAP_V3_SWAP_EVENT == "0xc42079f9"
UNISWAP_V2_SWAP_EVENT == "0xd78ad95f"

\* A token without a symbol: getTokenMetadata answers symbol: null
NoSymbol == ""
Truthy(symbol) == symbol # NoSymbol

\* What the chain and the metadata provider answer when they answer
PoolTokens ==
  [pUX |-> [token0 |-> "aUSDC", token1 |-> "aX"],
   pXY |-> [token0 |-> "aX", token1 |-> "aY"]]
TokenMetadata ==
  [aUSDC |-> [symbol |-> "USDC", decimals |-> 0],
   aX |-> [symbol |-> "X", decimals |-> 1],
   aY |-> [symbol |-> "Y", decimals |-> 0]]

RawArgs(a0, a1, a0In, a1In, a0Out, a1Out) ==
  [amount0 |-> a0, amount1 |-> a1, amount0In |-> a0In, amount1In |-> a1In,
   amount0Out |-> a0Out, amount1Out |-> a1Out]

\* The logs the subscription can push (its filter lets the two Swap topics through)
LogTemplates ==
  { [address |-> "pUX", topic0 |-> UNISWAP_V3_SWAP_EVENT, args |-> RawArgs(2, -10, 0, 0, 0, 0)],
    [address |-> "pXY", topic0 |-> UNISWAP_V2_SWAP_EVENT, args |-> RawArgs(0, 0, 0, 1, 30, 0)] }

NewLog(id, tmpl) ==
  [id |-> id, address |-> tmpl.address, topic0 |-> tmpl.topic0, args |-> tmpl.args,
   token0 |-> None, token1 |-> None]

\* what getEthereumUSD and getEthereumTokenUSD can answer
EthPrices == { Decimal(4, 1) }
OraclePrices == { Decimal(5, 1) }

\* ------------------------------------------------------------------ state
VARIABLES
  arrays,      \* the heap of log arrays: every `logs = []` allocates one
  logs,        \* index.ts:51  the array `logs` is bound to (an index of arrays)
  pairTokens,  \* index.ts:52
  tokens,      \* index.ts:53
  timer,       \* index.ts:55  handle of the last timer set, 0 for null
  PARSING,     \* index.ts:56
  ARRIVING,    \* index.ts:57
  pending,     \* the timers set and neither fired nor cleared: [id, due]
  now,         \* the clock
  cycles,      \* the invocations of parseSwapEvents in progress
  nextId,      \* number of the next log the subscription pushes
  arrivals,    \* observation: per pushed log, when it came and whether a cycle ran
  started,     \* observation: per started cycle, when, and the ids of its batch
  dbRows,      \* observation: the client.query calls made, in order
  oracleLog,   \* observation: the getEthereumTokenUSD calls answered, in order
  lookups,     \* observation: the getPairTokenSymbols and getTokenMetadata calls, in order
  raisedAt     \* observation: the positions at which a cycle ended by an exception

vars == << arrays, logs, pairTokens, tokens, timer, PARSING, ARRIVING, pending, now,
           cycles, nextId, arrivals, started, dbRows, oracleLog,
           lookups, raisedAt >>

aggregator == << logs, timer, ARRIVING, pending, now, nextId, arrivals, started >>
caches == << pairTokens, tokens >>

\* positions at which a cycle is suspended at an await of an external call
AwaitPcs == { "eth", "pair", "tok0", "tok1", "oracle", "block", "write" }
AtSuspension == \A k \in DOMAIN cycles : cycles[k].pc \in AwaitPcs

Remove(seq, k) == [x \in 1..(Len(seq) - 1) |-> IF x < k THEN seq[x] ELSE seq[x + 1]]

\* the local variables of one parseSwapEvents invocation and of its fillUSDAmounts frame
NewCycle ==
  [pc |-> "eth", i |-> 0, ETH_LATEST_PRICE |-> None,
   amount0 |-> None, amount1 |-> None,
   address |-> "", symbols |-> None, pairToken |-> [token0 |-> None, token1 |-> None],
   swapEvents |-> 0, graph |-> EmptyMap, stack |-> <<>>, symbol2USD |-> EmptyMap,
   k |-> 0, row |-> 0]

Init ==
  /\ arrays = << <<>> >>
  /\ logs = 1
  /\ pairTokens = EmptyMap
  /\ tokens = EmptyMap
  /\ timer = 0
  /\ PARSING = FALSE
  /\ ARRIVING = FALSE
  /\ pending = {}
  /\ now = 0
  /\ cycles = <<>>
  /\ nextId = 1
  /\ arrivals = <<>>
  /\ started = <<>>
  /\ dbRows = <<>>
  /\ oracleLog = <<>>
  /\ lookups = <<>>
  /\ raisedAt = {}

\* ------------------------------------------------------------ aggregator
\* the handler without its guard
BusyNever == FALSE

\* index.ts:171  the guard of the handler
Busy == PARSING

\* index.ts:170-186  alchemy.ws.on(filter, (log) => ...)
OnLog ==
  \E tmpl \in LogTemplates :
    /\ AtSuspension
    /\ nextId <= MaxLogs
    /\ now + QuietPeriod <= MaxTime
    /\ nextId' = nextId + 1
    /\ arrivals' = Append(arrivals, [t |-> now, running |-> cycles # <<>>])
    /\ IF Busy
       THEN UNCHANGED << arrays, logs, ARRIVING, pending, timer >>
       ELSE LET fresh == ~ARRIVING
                arrays1 == IF fresh THEN Append(arrays, <<>>) ELSE arrays
                logs1 == IF fresh THEN Len(arrays) + 1 ELSE logs
            IN  /\ arrays' = [arrays1 EXCEPT ![logs1] = Append(@, NewLog(nextId, tmpl))]
                /\ logs' = logs1
                /\ ARRIVING' = TRUE
                /\ pending' = { t \in pending : t.id # timer }
                                \cup { [id |-> nextId, due |-> now + QuietPeriod] }
                /\ timer' = nextId
    /\ UNCHANGED << pairTokens, tokens, PARSING, now, cycles, started, dbRows,
                    oracleLog, lookups, raisedAt >>

\* the clock
Tick ==
  /\ AtSuspension
  /\ now < MaxTime
  /\ now' = now + 1
  /\ UNCHANGED << arrays, logs, pairTokens, tokens, timer, PARSING, ARRIVING, pending,
                  cycles, nextId, arrivals, started, dbRows, oracleLog, lookups, raisedAt >>

Ids(array) == [x \in DOMAIN array |-> array[x].id]

\* parseSwapEvents without its ARRIVING = false
TimerFireStillArriving ==
  \E t \in pending :
    /\ AtSuspension
    /\ now >= t.due
    /\ pending' = pending \ {t}
    /\ PARSING' = TRUE
    /\ cycles' = Append(cycles, NewCycle)
    /\ started' = Append(started, [t |-> now, batch |-> Ids(arrays[logs])])
    /\ UNCHANGED << arrays, logs, pairTokens, tokens, timer, now, nextId, arrivals,
                    dbRows, oracleLog, lookups, raisedAt, ARRIVING >>

\* index.ts:184, 59-65  the timer fires: parseSwapEvents runs up to its first await
TimerFire ==
  \E t \in pending :
    /\ AtSuspension
    /\ now >= t.due
    /\ pending' = pending \ {t}
    /\ PARSING' = TRUE
    /\ ARRIVING' = FALSE
    /\ cycles' = Append(cycles, NewCycle)
    /\ started' = Append(started, [t |-> now, batch |-> Ids(arrays[logs])])
    /\ UNCHANGED << arrays, logs, pairTokens, tokens, timer, now, nextId, arrivals,
                    dbRows, oracleLog, lookups, raisedAt >>

\* --------------------------------------------------------- parseSwapEvents
\* the external lookup calls, as the observation records them
PairLookup(pool) == [kind |-> "pair", address |-> pool, pool |-> pool, result |-> "pending"]
TokenLookup(address, pool) ==
  [kind |-> "token", address |-> address, pool |-> pool, result |-> "pending"]

\* the call for (kind, address) that is awaited has settled
Settled(kind, address, result) ==
  LET open == { x \in DOMAIN lookups : /\ lookups[x].kind = kind
                                       /\ lookups[x].address = address
                                       /\ lookups[x].result = "pending" }
      x == CHOOSE x \in open : \A y \in open : x <= y
  IN  [lookups EXCEPT ![x].result = result]

\* a cycle ends by an exception: its promise is rejected, nothing else runs
Raise(k, where) ==
  /\ cycles' = Remove(cycles, k)
  /\ raisedAt' = raisedAt \cup {where}

\* index.ts:65  await getEthereumUSD() resolves
EthResolve(k) ==
  /\ AtSuspension
  /\ cycles[k].pc = "eth"
  /\ \E price \in EthPrices :
       cycles' = [cycles EXCEPT ![k] = [@ EXCEPT !.pc = "loop", !.i = 0,
                                                 !.ETH_LATEST_PRICE = Some(price)]]
  /\ UNCHANGED << arrays, aggregator, caches, PARSING, dbRows, oracleLog, lookups, raisedAt >>

\* index.ts:65 with webhooksUtil.ts:321-325  the request fails: the exception leaves
\* parseSwapEvents, which has no try around it
EthReject(k) ==
  /\ AtSuspension
  /\ cycles[k].pc = "eth"
  /\ Raise(k, "eth")
  /\ UNCHANGED << arrays, aggregator, caches, PARSING, dbRows, oracleLog, lookups >>

\* the in/out branch without the negation of amount0Out
ParsedAmountsUnsigned(log, c) ==
  IF log.topic0 = UNISWAP_V3_SWAP_EVENT
  THEN [amount0 |-> Some(log.args.amount0), amount1 |-> Some(log.args.amount1)]
  ELSE IF log.topic0 = UNISWAP_V2_SWAP_EVENT
  THEN IF log.args.amount0In = 0
       THEN [amount0 |-> Some(log.args.amount0Out), amount1 |-> Some(log.args.amount1In)]
       ELSE [amount0 |-> Some(log.args.amount0In), amount1 |-> Some(log.args.amount1Out)]
  ELSE [amount0 |-> c.amount0, amount1 |-> c.amount1]

\* index.ts:70-96  amount0 and amount1 are function-scoped (var): a log of neither
\* topic leaves them as the previous iteration set them
ParsedAmounts(log, c) ==
  IF log.topic0 = UNISWAP_V3_SWAP_EVENT
  THEN [amount0 |-> Some(log.args.amount0), amount1 |-> Some(log.args.amount1)]
  ELSE IF log.topic0 = UNISWAP_V2_SWAP_EVENT
  THEN IF log.args.amount0In = 0
       THEN [amount0 |-> Some(-log.args.amount0Out), amount1 |-> Some(log.args.amount1In)]
       ELSE [amount0 |-> Some(log.args.amount0In), amount1 |-> Some(log.args.amount1Out)]
  ELSE [amount0 |-> c.amount0, amount1 |-> c.amount1]

Leg(symbol, amount) ==
  [symbol |-> symbol, amount |-> amount, value_in_usd |-> None, total_exchanged_usd |-> None]

\* the legs in the pool's native order, whatever the signs
DecodedNative(log, amount0, amount1, pairToken) ==
  [log EXCEPT !.token0 = Some(Leg(pairToken.token0.symbol,
                                  formatUnits(amount0, pairToken.token0.decimal))),
              !.token1 = Some(Leg(pairToken.token1.symbol,
                                  abs(formatUnits(amount1, pairToken.token1.decimal))))]

\* index.ts:131-152
Decoded(log, amount0, amount1, pairToken) ==
  LET amount0Decimal == formatUnits(amount0, pairToken.token0.decimal)
      amount1Decimal == formatUnits(amount1, pairToken.token1.decimal)
  IN  IF isPositive(amount0Decimal)
      THEN [log EXCEPT !.token0 = Some(Leg(pairToken.token0.symbol, amount0Decimal)),
                       !.token1 = Some(Leg(pairToken.token1.symbol, abs(amount1Decimal)))]
      ELSE [log EXCEPT !.token0 = Some(Leg(pairToken.token1.symbol, amount1Decimal)),
                       !.token1 = Some(Leg(pairToken.token0.symbol, abs(amount0Decimal)))]

\* index.ts:131-152, 69  the rest of one iteration once pairToken is known: formatUnits
\* throws on an undefined amount, logs[i] must still exist
FinishLog(k, c) ==
  LET arr == arrays[logs]
  IN  IF /\ c.i < Len(arr)
         /\ IsSome(c.amount0) /\ IsSome(c.amount1)
         /\ IsSome(c.pairToken.token0) /\ IsSome(c.pairToken.token1)
      THEN /\ arrays' = [arrays EXCEPT ![logs][c.i + 1] =
                           Decoded(arr[c.i + 1], Val(c.amount0), Val(c.amount1),
                                   [token0 |-> Val(c.pairToken.token0),
                                    token1 |-> Val(c.pairToken.token1)])]
           /\ cycles' = [cycles EXCEPT ![k] = [c EXCEPT !.pc = "loop", !.i = c.i + 1]]
           /\ UNCHANGED raisedAt
      ELSE /\ Raise(k, "decode")
           /\ UNCHANGED arrays

\* index.ts:69-102  the head of the for loop up to the cache test; at the end of the
\* loop, the call of fillUSDAmounts(logs, ETH_LATEST_PRICE) (line 155)
LoopStep(k) ==
  LET c == cycles[k]
      arr == arrays[logs]
  IN  /\ c.pc = "loop"
      /\ IF c.i >= Len(arr)
         THEN /\ cycles' = [cycles EXCEPT ![k] = [c EXCEPT !.pc = "fill", !.swapEvents = logs]]
              /\ UNCHANGED << arrays, raisedAt, lookups >>
         ELSE LET log == arr[c.i + 1]
                  amounts == ParsedAmounts(log, c)
                  c1 == [c EXCEPT !.amount0 = amounts.amount0, !.amount1 = amounts.amount1,
                                  !.address = log.address]
              IN  IF Has(pairTokens, log.address)
                  THEN /\ FinishLog(k, [c1 EXCEPT !.pairToken =
                                          [token0 |-> Some(pairTokens[log.address].token0),
                                           token1 |-> Some(pairTokens[log.address].token1)]])
                       /\ UNCHANGED lookups
                  ELSE /\ cycles' = [cycles EXCEPT ![k] =
                                       [c1 EXCEPT !.pc = "pair", !.symbols = None,
                                                  !.pairToken = [token0 |-> None, token1 |-> None]]]
                       /\ lookups' = Append(lookups, PairLookup(log.address))
                       /\ UNCHANGED << arrays, raisedAt >>
      /\ UNCHANGED << aggregator, caches, PARSING, dbRows, oracleLog >>

Token(response) == [symbol |-> response.symbol, decimal |-> response.decimals]

\* index.ts:117-130  from the test of the token cache for token1 on; tokensNow is the
\* token cache and lookupsNow the record of the calls as the lines before left them
Token1Step(k, c, tokensNow, lookupsNow) ==
  LET token1 == Val(c.symbols).token1
  IN  IF Has(tokensNow, token1)
      THEN LET c1 == [c EXCEPT !.pairToken.token1 = Some(tokensNow[token1])]
           IN  /\ pairTokens' = Set(pairTokens, c.address,
                                    [token0 |-> Val(c1.pairToken.token0),
                                     token1 |-> Val(c1.pairToken.token1)])
               /\ lookups' = lookupsNow
               /\ FinishLog(k, c1)
      ELSE /\ cycles' = [cycles EXCEPT ![k] = [c EXCEPT !.pc = "tok1"]]
           /\ lookups' = Append(lookupsNow, TokenLookup(token1, c.address))
           /\ UNCHANGED << pairTokens, arrays, raisedAt >>

\* index.ts:102-116 with webhooksUtil.ts:519-523  getPairTokenSymbols answers
PairResolve(k) ==
  LET c == [cycles[k] EXCEPT !.symbols = Some(PoolTokens[cycles[k].address])]
      token0 == Val(c.symbols).token0
  IN  /\ AtSuspension
      /\ cycles[k].pc = "pair"
      /\ IF Has(tokens, token0)
         THEN Token1Step(k, [c EXCEPT !.pairToken.token0 = Some(tokens[token0])], tokens,
                         Settled("pair", c.address, "ok"))
         ELSE /\ cycles' = [cycles EXCEPT ![k] = [c EXCEPT !.pc = "tok0"]]
              /\ lookups' = Append(Settled("pair", c.address, "ok"),
                                   TokenLookup(token0, c.address))
              /\ UNCHANGED << pairTokens, arrays, raisedAt >>
      /\ UNCHANGED << aggregator, tokens, PARSING, dbRows, oracleLog >>

\* webhooksUtil.ts:524-527 then index.ts:105  the call fails, getPairTokenSymbols
\* returns null and symbols.token0 throws a TypeError
PairFail(k) ==
  /\ AtSuspension
  /\ cycles[k].pc = "pair"
  /\ Raise(k, "pair")
  /\ lookups' = Settled("pair", cycles[k].address, "failed")
  /\ UNCHANGED << arrays, aggregator, caches, PARSING, dbRows, oracleLog >>

\* index.ts:109-116  getTokenMetadata(symbols.token0) resolves
Tok0Resolve(k) ==
  LET c == cycles[k]
      address == Val(c.symbols).token0
      token == Token(TokenMetadata[address])
  IN  /\ AtSuspension
      /\ c.pc = "tok0"
      /\ tokens' = Set(tokens, address, token)
      /\ Token1Step(k, [c EXCEPT !.pairToken.token0 = Some(token)], tokens',
                    Settled("token", address, "ok"))
      /\ UNCHANGED << aggregator, PARSING, dbRows, oracleLog >>

\* index.ts:109  getTokenMetadata(symbols.token0) rejects
Tok0Reject(k) ==
  /\ AtSuspension
  /\ cycles[k].pc = "tok0"
  /\ Raise(k, "tok0")
  /\ lookups' = Settled("token", Val(cycles[k].symbols).token0, "failed")
  /\ UNCHANGED << arrays, aggregator, caches, PARSING, dbRows, oracleLog >>

\* index.ts:121-130  getTokenMetadata(symbols.token1) resolves
Tok1Resolve(k) ==
  LET c == cycles[k]
      address == Val(c.symbols).token1
      token == Token(TokenMetadata[address])
  IN  /\ AtSuspension
      /\ c.pc = "tok1"
      /\ tokens' = Set(tokens, address, token)
      /\ Token1Step(k, c, tokens', Settled("token", address, "ok"))
      /\ UNCHANGED << aggregator, PARSING, dbRows, oracleLog >>

\* the pair entry stored before the token lookups were awaited
Tok1RejectAfterSet(k) ==
  /\ AtSuspension
  /\ cycles[k].pc = "tok1"
  /\ Raise(k, "tok1")
  /\ lookups' = Settled("token", Val(cycles[k].symbols).token1, "failed")
  /\ pairTokens' = Set(pairTokens, cycles[k].address,
                       [token0 |-> Val(cycles[k].pairToken.token0),
                        token1 |-> Val(cycles[k].pairToken.token0)])
  /\ UNCHANGED << arrays, aggregator, tokens, PARSING, dbRows, oracleLog >>

\* index.ts:121  getTokenMetadata(symbols.token1) rejects
Tok1Reject(k) ==
  /\ AtSuspension
  /\ cycles[k].pc = "tok1"
  /\ Raise(k, "tok1")
  /\ lookups' = Settled("token", Val(cycles[k].symbols).token1, "failed")
  /\ UNCHANGED << arrays, aggregator, caches, PARSING, dbRows, oracleLog >>

\* ---------------------------------------------------------- fillUSDAmounts
\* addEdge with the two ends of the edge exchanged
addEdgeReversed(graph, A, B, ratio) ==
  IF Has(graph, B)
  THEN [graph EXCEPT ![B] = Append(@, [symbol |-> A, ratio |-> ratio])]
  ELSE Set(graph, B, << [symbol |-> A, ratio |-> ratio] >>)

\* webhooksUtil.ts:345-351
addEdge(graph, A, B, ratio) ==
  IF Has(graph, A)
  THEN [graph EXCEPT ![A] = Append(@, [symbol |-> B, ratio |-> ratio])]
  ELSE Set(graph, A, << [symbol |-> B, ratio |-> ratio] >>)

\* webhooksUtil.ts:358  the test that lets a swap into the graph
BothSymbols(se) == Truthy(Val(se.token0).symbol) /\ Truthy(Val(se.token1).symbol)

\* the loop over the swaps stopping one swap early
RECURSIVE BuildGraphButLast(_, _, _)
BuildGraphButLast(swapEvents, idx, graph) ==
  IF idx >= Len(swapEvents) THEN graph
  ELSE LET t0 == Val(swapEvents[idx].token0)
           t1 == Val(swapEvents[idx].token1)
       IN  IF BothSymbols(swapEvents[idx])
           THEN BuildGraphButLast(swapEvents, idx + 1,
                  addEdge(addEdge(graph, t0.symbol, t1.symbol, dividedBy(t0.amount, t1.amount)),
                          t1.symbol, t0.symbol, dividedBy(t1.amount, t0.amount)))
           ELSE BuildGraphButLast(swapEvents, idx + 1, graph)

\* webhooksUtil.ts:357-362  the graph after the swaps from position idx on are added
RECURSIVE BuildGraph(_, _, _)
BuildGraph(swapEvents, idx, graph) ==
  IF idx > Len(swapEvents) THEN graph
  ELSE LET t0 == Val(swapEvents[idx].token0)
           t1 == Val(swapEvents[idx].token1)
       IN  IF BothSymbols(swapEvents[idx])
           THEN BuildGraph(swapEvents, idx + 1,
                  addEdge(addEdge(graph, t0.symbol, t1.symbol, dividedBy(t0.amount, t1.amount)),
                          t1.symbol, t0.symbol, dividedBy(t1.amount, t0.amount)))
           ELSE BuildGraph(swapEvents, idx + 1, graph)

\* webhooksUtil.ts:364
AnchorStack ==
  << "GHO", "GRAI", "SEUR", "aUSDC", "BUSD", "GUSD", "CRVUSD", "EUSD", "aUSDT", "USDP",
     "TUSD", "MIM", "EURA", "TAI", "XAI", "USDD", "BOB", "PUSd", "EUSD", "DAI", "VEUR",
     "DOLA", "FRAX", "anyCRU", "anyETH", "MXNt", "LUSD", "SUSD", "USDC", "USDT", "WETH" >>

\* webhooksUtil.ts:369  the entries of the stack that are set to 1.0
Pegged(stack) == { stack[x] : x \in 1..(Len(stack) - 1) }

\* webhooksUtil.ts:366-371
SeedPrices(stack, ETH2USD) ==
  [s \in {"WETH"} \cup Pegged(stack) |-> IF s \in Pegged(stack) THEN One ELSE ETH2USD]

\* the for loop with the push outside the test of symbol2USD.has
RECURSIVE RelaxAlwaysPush(_, _, _, _)
RelaxAlwaysPush(edges, idx, symbol, st) ==
  IF idx > Len(edges) THEN st
  ELSE LET right == edges[idx]
       IN  IF ~Has(st.symbol2USD, right.symbol)
           THEN RelaxAlwaysPush(edges, idx + 1, symbol,
                      [symbol2USD |-> Set(st.symbol2USD, right.symbol,
                                          times(st.symbol2USD[symbol], right.ratio)),
                       stack |-> Append(st.stack, right.symbol)])
           ELSE RelaxAlwaysPush(edges, idx + 1, symbol,
                      [symbol2USD |-> st.symbol2USD,
                       stack |-> Append(st.stack, right.symbol)])

\* webhooksUtil.ts:377-382 (and 404-409)  the for loop over the edges of symbol, from
\* position idx on; st is [symbol2USD, stack]
RECURSIVE Relax(_, _, _, _)
Relax(edges, idx, symbol, st) ==
  IF idx > Len(edges) THEN st
  ELSE LET right == edges[idx]
       IN  IF ~Has(st.symbol2USD, right.symbol)
           THEN Relax(edges, idx + 1, symbol,
                      [symbol2USD |-> Set(st.symbol2USD, right.symbol,
                                          times(st.symbol2USD[symbol], right.ratio)),
                       stack |-> Append(st.stack, right.symbol)])
           ELSE Relax(edges, idx + 1, symbol, st)

\* the while loop with its test of graph.has negated: every symbol is skipped
PopAndSkip(graph, symbol2USD, stack) ==
  [symbol2USD |-> symbol2USD, stack |-> SubSeq(stack, 1, Len(stack) - 1)]

\* webhooksUtil.ts:374-382 (and 401-409)  one iteration of the while loop
PopAndRelax(graph, symbol2USD, stack) ==
  LET symbol == stack[Len(stack)]
      rest == SubSeq(stack, 1, Len(stack) - 1)
  IN  IF ~Has(graph, symbol) THEN [symbol2USD |-> symbol2USD, stack |-> rest]
      ELSE Relax(graph[symbol], 1, symbol, [symbol2USD |-> symbol2USD, stack |-> rest])

\* the pricing loop without its test of symbol2USD.has
NeverPriced(symbol2USD, se) == FALSE

\* the pricing loop testing both legs before it applies the prices
BothLegsPriced(symbol2USD, se) ==
  Has(symbol2USD, Val(se.token0).symbol) /\ Has(symbol2USD, Val(se.token1).symbol)

\* webhooksUtil.ts:385  (and 412)
FirstLegPriced(symbol2USD, se) == Has(symbol2USD, Val(se.token0).symbol)

PricedLeg(leg, symbol2USD) ==
  [leg EXCEPT !.value_in_usd = Some(symbol2USD[leg.symbol]),
              !.total_exchanged_usd = Some(times(symbol2USD[leg.symbol], leg.amount))]

\* webhooksUtil.ts:385-391 and 412-419  the USD fields of one swap
ApplyUSD(se, symbol2USD) ==
  IF FirstLegPriced(symbol2USD, se)
  THEN IF Has(symbol2USD, Val(se.token1).symbol)
       THEN [se EXCEPT !.token0 = Some(PricedLeg(Val(se.token0), symbol2USD)),
                       !.token1 = Some(PricedLeg(Val(se.token1), symbol2USD))]
       ELSE [se EXCEPT !.token0 = Some(PricedLeg(Val(se.token0), symbol2USD))]
  ELSE se

\* index.ts:156-158  fillUSDAmounts has returned: the cycle ends
FinishCycle(k) ==
  /\ PARSING' = FALSE
  /\ cycles' = Remove(cycles, k)

\* webhooksUtil.ts:353-371  fillUSDAmounts up to the first traversal
FillEnter(k) ==
  LET c == cycles[k]
      swapEvents == arrays[c.swapEvents]
  IN  /\ c.pc = "fill"
      /\ IF Len(swapEvents) = 0
         THEN FinishCycle(k) /\ UNCHANGED raisedAt
         ELSE IF \E x \in DOMAIN swapEvents :
                   swapEvents[x].token0 = None \/ swapEvents[x].token1 = None
         THEN Raise(k, "fill") /\ UNCHANGED PARSING
         ELSE /\ cycles' = [cycles EXCEPT ![k] =
                   [c EXCEPT !.pc = "traverse",
                             !.graph = BuildGraph(swapEvents, 1, EmptyMap),
                             !.stack = AnchorStack,
                             !.symbol2USD = SeedPrices(AnchorStack, Val(c.ETH_LATEST_PRICE))]]
              /\ UNCHANGED << PARSING, raisedAt >>
      /\ UNCHANGED << arrays, aggregator, caches, dbRows, oracleLog, lookups >>

\* webhooksUtil.ts:373-383  one iteration of the first traversal; when the stack is
\* empty the pricing loop starts (line 384)
TraverseStep(k) ==
  LET c == cycles[k]
      st == PopAndRelax(c.graph, c.symbol2USD, c.stack)
  IN  /\ c.pc = "traverse"
      /\ cycles' = [cycles EXCEPT ![k] =
           [c EXCEPT !.symbol2USD = st.symbol2USD, !.stack = st.stack,
                     !.pc = IF st.stack = <<>> THEN "price" ELSE "traverse",
                     !.k = 0]]
      /\ UNCHANGED << arrays, aggregator, caches, PARSING, dbRows, oracleLog, lookups, raisedAt >>

\* webhooksUtil.ts:384-394, 412-420, 423  the head of the pricing loop: a swap whose
\* first leg is priced gets its fields; otherwise the oracle is called; after the
\* last swap, getBlock is called
PriceStep(k) ==
  LET c == cycles[k]
      swapEvents == arrays[c.swapEvents]
  IN  /\ c.pc = "price"
      /\ IF c.k >= Len(swapEvents)
         THEN /\ cycles' = [cycles EXCEPT ![k] = [c EXCEPT !.pc = "block"]]
              /\ UNCHANGED arrays
         ELSE IF FirstLegPriced(c.symbol2USD, swapEvents[c.k + 1])
         THEN /\ arrays' = [arrays EXCEPT ![c.swapEvents][c.k + 1] = ApplyUSD(@, c.symbol2USD)]
              /\ cycles' = [cycles EXCEPT ![k] = [c EXCEPT !.k = c.k + 1]]
         ELSE /\ cycles' = [cycles EXCEPT ![k] =
                   [c EXCEPT !.pc = "oracle",
                             !.stack = Append(c.stack, Val(swapEvents[c.k + 1].token0).symbol)]]
              /\ UNCHANGED arrays
      /\ UNCHANGED << aggregator, caches, PARSING, dbRows, oracleLog, lookups, raisedAt >>

\* webhooksUtil.ts:395  usdPrice == new Decimal(0): both operands are objects, so ==
\* compares references, and new Decimal(0) is a fresh object
EqualsNewDecimalZero(usdPrice) == FALSE

\* webhooksUtil.ts:373-383 (and 400-410)  the while loop, run until the stack is empty
RECURSIVE Traverse(_, _)
Traverse(graph, st) ==
  IF st.stack = <<>> THEN st
  ELSE Traverse(graph, PopAndRelax(graph, st.symbol2USD, st.stack))

\* webhooksUtil.ts:384-420  the price map after the pricing loop from swap idx on,
\* getEthereumTokenUSD answering oracle[symbol] for the first leg's token
RECURSIVE PricingLoop(_, _, _, _, _)
PricingLoop(swapEvents, graph, symbol2USD, idx, oracle) ==
  IF idx > Len(swapEvents) THEN symbol2USD
  ELSE IF FirstLegPriced(symbol2USD, swapEvents[idx])
  THEN PricingLoop(swapEvents, graph, symbol2USD, idx + 1, oracle)
  ELSE LET symbol == Val(swapEvents[idx].token0).symbol
           usdPrice == oracle[symbol]
       IN  IF EqualsNewDecimalZero(usdPrice)
           THEN PricingLoop(swapEvents, graph, symbol2USD, idx + 1, oracle)
           ELSE PricingLoop(swapEvents, graph,
                            Traverse(graph, [symbol2USD |-> Set(symbol2USD, symbol, usdPrice),
                                             stack |-> << symbol >>]).symbol2USD,
                            idx + 1, oracle)

\* webhooksUtil.ts:353-420  the price map fillUSDAmounts computes for a batch
priceUSD(swapEvents, ETH2USD, oracle) ==
  LET graph == BuildGraph(swapEvents, 1, EmptyMap)
  IN  PricingLoop(swapEvents, graph,
                  Traverse(graph, [symbol2USD |-> SeedPrices(AnchorStack, ETH2USD),
                                   stack |-> AnchorStack]).symbol2USD,
                  1, oracle)

\* webhooksUtil.ts:412-420  after the oracle branch: the fields of the swap, then ++i
AfterOracleBranch(k, c) ==
  /\ arrays' = [arrays EXCEPT ![c.swapEvents][c.k + 1] = ApplyUSD(@, c.symbol2USD)]
  /\ cycles' = [cycles EXCEPT ![k] = [c EXCEPT !.pc = "price", !.k = c.k + 1]]

\* webhooksUtil.ts:394-399 with 327-343  getEthereumTokenUSD answers: a price, or
\* Decimal(0) from its catch
OracleReturn(k) ==
  LET c == cycles[k]
      symbol == c.stack[Len(c.stack)]
  IN  /\ AtSuspension
      /\ c.pc = "oracle"
      /\ \E usdPrice \in OraclePrices \cup {Zero} :
           /\ oracleLog' = Append(oracleLog, [symbol |-> symbol, usdPrice |-> usdPrice])
           /\ IF EqualsNewDecimalZero(usdPrice)
              THEN /\ cycles' = [cycles EXCEPT ![k] =
                        [c EXCEPT !.pc = "price", !.k = c.k + 1,
                                  !.stack = SubSeq(c.stack, 1, Len(c.stack) - 1)]]
              ELSE /\ cycles' = [cycles EXCEPT ![k] =
                        [c EXCEPT !.pc = "retraverse",
                                  !.symbol2USD = Set(c.symbol2USD, symbol, usdPrice)]]
      /\ UNCHANGED << arrays, aggregator, caches, PARSING, dbRows, lookups, raisedAt >>

\* webhooksUtil.ts:400-419  one iteration of the traversal from the oracle's seed;
\* when the stack is empty, the fields of the swap and ++i
RetraverseStep(k) ==
  LET c == cycles[k]
      st == PopAndRelax(c.graph, c.symbol2USD, c.stack)
      c1 == [c EXCEPT !.symbol2USD = st.symbol2USD, !.stack = st.stack]
  IN  /\ c.pc = "retraverse"
      /\ IF st.stack = <<>>
         THEN AfterOracleBranch(k, c1)
         ELSE cycles' = [cycles EXCEPT ![k] = c1] /\ UNCHANGED arrays
      /\ UNCHANGED << aggregator, caches, PARSING, dbRows, oracleLog, lookups, raisedAt >>

\* webhooksUtil.ts:426-476  the client.query call for the next row (0-based row)
QueryRow(c, row) ==
  Append(dbRows, [id |-> arrays[c.swapEvents][row + 1].id, result |-> "pending"])

\* webhooksUtil.ts:423-476  web3.eth.getBlock resolves: the first row is written
BlockResolve(k) ==
  LET c == cycles[k]
  IN  /\ AtSuspension
      /\ c.pc = "block"
      /\ cycles' = [cycles EXCEPT ![k] = [c EXCEPT !.pc = "write", !.row = 0]]
      /\ dbRows' = QueryRow(c, 0)
      /\ UNCHANGED << arrays, aggregator, caches, PARSING, oracleLog, lookups, raisedAt >>

\* webhooksUtil.ts:423  web3.eth.getBlock rejects (or web3 is undefined, as in the
\* call of index.ts:155, which passes two arguments): nothing catches it
BlockReject(k) ==
  /\ AtSuspension
  /\ cycles[k].pc = "block"
  /\ Raise(k, "block")
  /\ UNCHANGED << arrays, aggregator, caches, PARSING, dbRows, oracleLog, lookups >>

\* client.query awaited outside a try
QueryErrorEscapes == FALSE

\* webhooksUtil.ts:475-479  try { await client.query } catch (err) { console.error }
QueryErrorCaught == TRUE

\* webhooksUtil.ts:426-482, index.ts:156-158  client.query settles: the next row, or
\* the end of fillUSDAmounts and of the cycle
WriteReturn(k) ==
  LET c == cycles[k]
      n == Len(arrays[c.swapEvents])
  IN  /\ AtSuspension
      /\ c.pc = "write"
      /\ \E ok \in BOOLEAN :
           LET settled == [dbRows EXCEPT ![Len(dbRows)].result = IF ok THEN "ok" ELSE "failed"]
           IN  IF ~ok /\ ~QueryErrorCaught
               THEN /\ Raise(k, "write")
                    /\ dbRows' = settled
                    /\ UNCHANGED PARSING
               ELSE IF c.row + 1 < n
               THEN /\ cycles' = [cycles EXCEPT ![k] = [c EXCEPT !.row = c.row + 1]]
                    /\ dbRows' = Append(settled, [id |-> arrays[c.swapEvents][c.row + 2].id,
                                                  result |-> "pending"])
                    /\ UNCHANGED << PARSING, raisedAt >>
               ELSE /\ FinishCycle(k)
                    /\ dbRows' = settled
                    /\ UNCHANGED raisedAt
      /\ UNCHANGED << arrays, aggregator, caches, oracleLog, lookups >>

\* ---------------------------------------------------------- specifications
Next ==
  \/ OnLog
  \/ Tick
  \/ TimerFire
  \/ \E k \in DOMAIN cycles : EthResolve(k)
  \/ \E k \in DOMAIN cycles : EthReject(k)
  \/ \E k \in DOMAIN cycles : LoopStep(k)
  \/ \E k \in DOMAIN cycles : PairResolve(k)
  \/ \E k \in DOMAIN cycles : PairFail(k)
  \/ \E k \in DOMAIN cycles : Tok0Resolve(k)
  \/ \E k \in DOMAIN cycles : Tok0Reject(k)
  \/ \E k \in DOMAIN cycles : Tok1Resolve(k)
  \/ \E k \in DOMAIN cycles : Tok1Reject(k)
  \/ \E k \in DOMAIN cycles : FillEnter(k)
  \/ \E k \in DOMAIN cycles : TraverseStep(k)
  \/ \E k \in DOMAIN cycles : PriceStep(k)
  \/ \E k \in DOMAIN cycles : OracleReturn(k)
  \/ \E k \in DOMAIN cycles : RetraverseStep(k)
  \/ \E k \in DOMAIN cycles : BlockResolve(k)
  \/ \E k \in DOMAIN cycles : BlockReject(k)
  \/ \E k \in DOMAIN cycles : WriteReturn(k)

Spec == Init /\ [][Next]_vars

\* --------------------------------------------- fillUSDAmounts on its own
\* The batches fillUSDAmounts is called with: decoded swaps (index.ts:131-152), the
\* first leg first.  The pairs and amounts cover an anchor next to a token, a chain
\* of tokens, a token away from every anchor, and a token without a symbol.
SwapPairs ==
  { <<"USDC", "X">>, <<"X", "USDC">>, <<"X", "Y">>, <<"Y", "X">>, <<"WETH", "Y">>,
    <<"Y", "WETH">>, <<NoSymbol, "X">>, <<"X", NoSymbol>>, <<"USDC", NoSymbol>> }
AmountPairs == { <<2, 1>>, <<3, 1>> }

Swaps ==
  { [token0 |-> Some(Leg(p[1], Decimal(a[1], 1))), token1 |-> Some(Leg(p[2], Decimal(a[2], 1)))] :
      p \in SwapPairs, a \in AmountPairs }

SwapLog(id, swap) ==
  [id |-> id, address |-> "", topic0 |-> "", args |-> RawArgs(0, 0, 0, 0, 0, 0),
   token0 |-> swap.token0, token1 |-> swap.token1]

Batches ==
  UNION { { [x \in 1..n |-> SwapLog(x, f[x])] : f \in [1..n -> Swaps] } : n \in 1..MaxBatch }

\* the state at the call of fillUSDAmounts (index.ts:155) for one batch
InitFill ==
  \E batch \in Batches, price \in EthPrices :
    /\ arrays = << batch >>
    /\ logs = 1
    /\ pairTokens = EmptyMap
    /\ tokens = EmptyMap
    /\ timer = 0
    /\ PARSING = TRUE
    /\ ARRIVING = FALSE
    /\ pending = {}
    /\ now = 0
    /\ cycles = << [NewCycle EXCEPT !.pc = "fill", !.i = Len(batch), !.swapEvents = 1,
                                    !.ETH_LATEST_PRICE = Some(price)] >>
    /\ nextId = Len(batch) + 1
    /\ arrivals = <<>>
    /\ started = << [t |-> 0, batch |-> Ids(batch)] >>
    /\ dbRows = <<>>
    /\ oracleLog = <<>>
    /\ lookups = <<>>
    /\ raisedAt = {}

NextFill ==
  \/ \E k \in DOMAIN cycles : FillEnter(k)
  \/ \E k \in DOMAIN cycles : TraverseStep(k)
  \/ \E k \in DOMAIN cycles : PriceStep(k)
  \/ \E k \in DOMAIN cycles : OracleReturn(k)
  \/ \E k \in DOMAIN cycles : RetraverseStep(k)
  \/ \E k \in DOMAIN cycles : BlockResolve(k)
  \/ \E k \in DOMAIN cycles : BlockReject(k)
  \/ \E k \in DOMAIN cycles : WriteReturn(k)

SpecFill == InitFill /\ [][NextFill]_vars

\* webhooksUtil.ts:373-383, 400-410  the two while loops have no await in them: once
\* entered they run on, whatever else is waiting in the event loop
SpecFillLive ==
  /\ SpecFill
  /\ WF_vars(\E k \in DOMAIN cycles : TraverseStep(k))
  /\ WF_vars(\E k \in DOMAIN cycles : RetraverseStep(k))

\* ------------------------------------------- the decoding loop on its own
\* a first topic that is neither of the two signatures
OtherTopic == "0x00000000"

\* The logs the loop of parseSwapEvents can find in a batch (index.ts:69-96): of the
\* signed-delta signature with either side positive, of the in/out signature with
\* and without a side-0 "in" amount, and of neither signature; on either pool.
DecodeLogs ==
  { [address |-> pool, topic0 |-> f[1], args |-> f[2]] :
      pool \in DOMAIN PoolTokens,
      f \in { <<UNISWAP_V3_SWAP_EVENT, RawArgs(2, -10, 0, 0, 0, 0)>>,
              <<UNISWAP_V3_SWAP_EVENT, RawArgs(-3, 20, 0, 0, 0, 0)>>,
              <<UNISWAP_V2_SWAP_EVENT, RawArgs(0, 0, 0, 1, 30, 0)>>,
              <<UNISWAP_V2_SWAP_EVENT, RawArgs(0, 0, 4, 0, 0, 7)>>,
              <<OtherTopic, RawArgs(9, -9, 0, 0, 0, 0)>> } }

DecodeBatches ==
  UNION { { [x \in 1..n |-> NewLog(x, f[x])] : f \in [1..n -> DecodeLogs] } : n \in 1..MaxBatch }

\* the state at the head of the for loop (index.ts:69), the caches empty
InitDecode ==
  \E batch \in DecodeBatches, price \in EthPrices :
    /\ arrays = << batch >>
    /\ logs = 1
    /\ pairTokens = EmptyMap
    /\ tokens = EmptyMap
    /\ timer = 0
    /\ PARSING = TRUE
    /\ ARRIVING = FALSE
    /\ pending = {}
    /\ now = 0
    /\ cycles = << [NewCycle EXCEPT !.pc = "loop", !.ETH_LATEST_PRICE = Some(price)] >>
    /\ nextId = Len(batch) + 1
    /\ arrivals = <<>>
    /\ started = << [t |-> 0, batch |-> Ids(batch)] >>
    /\ dbRows = <<>>
    /\ oracleLog = <<>>
    /\ lookups = <<>>
    /\ raisedAt = {}

NextDecode ==
  \/ \E k \in DOMAIN cycles : LoopStep(k)
  \/ \E k \in DOMAIN cycles : PairResolve(k)
  \/ \E k \in DOMAIN cycles : PairFail(k)
  \/ \E k \in DOMAIN cycles : Tok0Resolve(k)
  \/ \E k \in DOMAIN cycles : Tok0Reject(k)
  \/ \E k \in DOMAIN cycles : Tok1Resolve(k)
  \/ \E k \in DOMAIN cycles : Tok1Reject(k)

SpecDecode == InitDecode /\ [][NextDecode]_vars

\* ================================================================ claims
Range(seq) == { seq[x] : x \in DOMAIN seq }

\* the batches of the cycles that started which hold log id
BatchesOf(id) == { s \in DOMAIN started : id \in Range(started[s].batch) }

\* log id is in the buffer and the debounce timer is armed
Buffered(id) ==
  /\ ARRIVING
  /\ id \in Range(Ids(arrays[logs]))
  /\ \E t \in pending : t.id = timer

\* C1  Debounce coalescing: every log that arrives while no processing cycle is
\* running is in the buffer with the timer armed, or in the batch of exactly one
\* cycle; two such logs less than a quiet period apart are in the same batch; a
\* batch is in arrival order and its cycle starts no earlier than one quiet period
\* after the arrival of its last log.
C1_DebounceCoalescing ==
  /\ \A id \in DOMAIN arrivals :
       ~arrivals[id].running =>
         \/ Buffered(id) /\ BatchesOf(id) = {}
         \/ ~Buffered(id) /\ Cardinality(BatchesOf(id)) = 1
  /\ \A id \in DOMAIN arrivals :
       /\ id + 1 \in DOMAIN arrivals
       /\ ~arrivals[id].running /\ ~arrivals[id + 1].running
       /\ arrivals[id + 1].t - arrivals[id].t < QuietPeriod
       => BatchesOf(id) = BatchesOf(id + 1)
  /\ \A s \in DOMAIN started :
       LET batch == started[s].batch
       IN  /\ batch # <<>>
           /\ \A x \in DOMAIN batch : x > 1 => batch[x - 1] < batch[x]
           /\ started[s].t >= arrivals[batch[Len(batch)]].t + QuietPeriod

\* the same, as long as no cycle has ended by an exception
C1_UntilAFailure == raisedAt = {} => C1_DebounceCoalescing

\* C2  Single-flight processing: in every reachable state at most one invocation
\* of parseSwapEvents is in progress.
C2_SingleFlight == Len(cycles) <= 1

\* a second cycle is running, started after the first one ended
C2_Witness == Len(started) >= 2 /\ Len(cycles) = 1

\* C3  No wedge: whenever no cycle is in progress the busy flag is clear, also
\* after a cycle that failed.
C3_NoWedge == cycles = <<>> => ~PARSING

\* C4  Drop-on-busy: a log that arrived while a cycle was running is in no log
\* array (neither the batch being processed nor a later one), in the batch of no
\* cycle, and no timer was set for it.
C4_DropOnBusy ==
  \A id \in DOMAIN arrivals :
    arrivals[id].running =>
      /\ \A a \in DOMAIN arrays : id \notin Range(Ids(arrays[a]))
      /\ BatchesOf(id) = {}
      /\ timer # id
      /\ \A t \in pending : t.id # id

\* a log was dropped during a cycle and a later cycle has started
C4_Witness ==
  \E id \in DOMAIN arrivals :
    /\ arrivals[id].running
    /\ \E s \in DOMAIN started : started[s].t > arrivals[id].t

\* ---- the pricing pass
PastFirstTraversal == { "price", "oracle", "retraverse", "block", "write" }
PricingDone == { "block", "write" }

\* the edges the swaps of a batch stand for: swap by swap, in both directions
SwapEdges(swapEvents, swaps) ==
  UNION { LET t0 == Val(swapEvents[x].token0)
              t1 == Val(swapEvents[x].token1)
          IN  { [from |-> t0.symbol, to |-> t1.symbol, swap |-> x,
                 ratio |-> dividedBy(t0.amount, t1.amount)],
                [from |-> t1.symbol, to |-> t0.symbol, swap |-> x,
                 ratio |-> dividedBy(t1.amount, t0.amount)] } : x \in swaps }

\* the edges of the swaps whose two symbols are present
GraphEdges(swapEvents) ==
  SwapEdges(swapEvents, { x \in DOMAIN swapEvents : BothSymbols(swapEvents[x]) })
\* the edges of all swaps
AllEdges(swapEvents) == SwapEdges(swapEvents, DOMAIN swapEvents)

AnchorSymbols == Range(AnchorStack)

\* the number of simple paths from an anchor to v that avoid visited
RECURSIVE PathCount(_, _, _)
RECURSIVE PathCountOver(_, _, _)
PathCount(E, v, visited) ==
  (IF v \in AnchorSymbols THEN 1 ELSE 0)
  + PathCountOver(E, { e \in E : e.to = v /\ e.from \notin visited \cup {v} }, visited \cup {v})
PathCountOver(E, into, visited) ==
  IF into = {} THEN 0
  ELSE LET e == CHOOSE e \in into : TRUE
       IN  PathCount(E, e.from, visited) + PathCountOver(E, into \ {e}, visited)

\* the anchor's price times the weights along the one path to v
RECURSIVE PathPrice(_, _, _, _)
PathPrice(E, seed, v, visited) ==
  IF v \in AnchorSymbols THEN seed[v]
  ELSE LET e == CHOOSE e \in E : /\ e.to = v /\ e.from \notin visited \cup {v}
                                 /\ PathCount(E, e.from, visited \cup {v}) = 1
       IN  times(PathPrice(E, seed, e.from, visited \cup {v}), e.ratio)

IsSwap(se, symbol0, amount0, symbol1, amount1) ==
  /\ Val(se.token0).symbol = symbol0 /\ Val(se.token0).amount = Decimal(amount0, 1)
  /\ Val(se.token1).symbol = symbol1 /\ Val(se.token1).amount = Decimal(amount1, 1)

\* the batch of the example: USDC->X with ratio 2, X->Y with ratio 3
ExampleBatch(swapEvents) ==
  /\ Len(swapEvents) = 2
  /\ IsSwap(swapEvents[1], "USDC", 2, "X", 1)
  /\ IsSwap(swapEvents[2], "X", 3, "Y", 1)

\* C5  Propagation correctness: after the first traversal, a token with exactly
\* one path of swap edges from an anchor has the anchor's price times the weights
\* along that path; for USDC->X (2) and X->Y (3), price(X) = 2 and price(Y) = 6.
C5_PropagationCorrectness ==
  \A k \in DOMAIN cycles :
    LET c == cycles[k]
        swapEvents == arrays[c.swapEvents]
        E == GraphEdges(swapEvents)
        seed == [s \in AnchorSymbols |-> IF s = "WETH" THEN Val(c.ETH_LATEST_PRICE) ELSE One]
    IN  c.pc \in PastFirstTraversal =>
          /\ \A v \in { e.to : e \in E } \ AnchorSymbols :
               PathCount(E, v, {}) = 1 =>
                 /\ Has(c.symbol2USD, v)
                 /\ c.symbol2USD[v] = PathPrice(E, seed, v, {})
          /\ ExampleBatch(swapEvents) =>
               /\ Has(c.symbol2USD, "X") /\ c.symbol2USD["X"] = Decimal(2, 1)
               /\ Has(c.symbol2USD, "Y") /\ c.symbol2USD["Y"] = Decimal(6, 1)

\* the example batch, priced
C5_Witness ==
  \E k \in DOMAIN cycles :
    /\ cycles[k].pc = "block"
    /\ ExampleBatch(arrays[cycles[k].swapEvents])
    /\ cycles[k].symbol2USD["Y"] = Decimal(6, 1)

\* C6  First-reached price wins: within one batch an entry of the price map never
\* changes once it is there; every pegged anchor stays at 1 and WETH at the
\* ETH/USD rate the batch was given.
C6_FirstReachedWins ==
  /\ [](\A k \in DOMAIN cycles :
          cycles[k].pc \in PastFirstTraversal \cup {"traverse"} =>
            /\ cycles[k].symbol2USD["WETH"] = Val(cycles[k].ETH_LATEST_PRICE)
            /\ \A s \in AnchorSymbols \ {"WETH"} : cycles[k].symbol2USD[s] = One)
  /\ [][\A k \in DOMAIN cycles \cap DOMAIN cycles' :
          \A s \in DOMAIN cycles[k].symbol2USD :
            /\ Has(cycles'[k].symbol2USD, s)
            /\ cycles'[k].symbol2USD[s] = cycles[k].symbol2USD[s]]_vars

\* a batch with a swap whose ratio disagrees with the prices its two tokens keep
C6_Witness ==
  \E k \in DOMAIN cycles :
    /\ cycles[k].pc = "block"
    /\ \E e \in GraphEdges(arrays[cycles[k].swapEvents]) :
         /\ Has(cycles[k].symbol2USD, e.from) /\ Has(cycles[k].symbol2USD, e.to)
         /\ cycles[k].symbol2USD[e.to] # times(cycles[k].symbol2USD[e.from], e.ratio)

LegsOf(swapEvents) ==
  { Val(swapEvents[x].token0) : x \in DOMAIN swapEvents }
    \cup { Val(swapEvents[x].token1) : x \in DOMAIN swapEvents }

\* C7  Oracle failure leaves the price absent: at the end of the pricing pass a
\* token for which the oracle answered zero has no entry in the price map, and the
\* legs of that token have no USD fields.
C7_OracleFailureAbsent ==
  \A k \in DOMAIN cycles :
    cycles[k].pc \in PricingDone =>
      \A x \in DOMAIN oracleLog :
        oracleLog[x].usdPrice = Zero =>
          /\ ~Has(cycles[k].symbol2USD, oracleLog[x].symbol)
          /\ \A leg \in LegsOf(arrays[cycles[k].swapEvents]) :
               leg.symbol = oracleLog[x].symbol =>
                 leg.value_in_usd = None /\ leg.total_exchanged_usd = None

\* the symbols linked to the symbols of S by the edges of E
RECURSIVE Reach(_, _)
Reach(E, S) ==
  LET more == S \cup { e.to : e \in { e \in E : e.from \in S } }
  IN  IF more = S THEN S ELSE Reach(E, more)

\* at the end of the pricing pass, a token the oracle priced holds that price and
\* every token linked to it has a price; the links are the edges of all swaps
\* (allSwaps) or of the swaps whose two symbols are present
Reseeded(allSwaps) ==
  \A k \in DOMAIN cycles :
    LET swapEvents == arrays[cycles[k].swapEvents]
        E == IF allSwaps THEN AllEdges(swapEvents) ELSE GraphEdges(swapEvents)
    IN  cycles[k].pc \in PricingDone =>
          \A x \in DOMAIN oracleLog :
            oracleLog[x].usdPrice # Zero =>
              /\ Has(cycles[k].symbol2USD, oracleLog[x].symbol)
              /\ cycles[k].symbol2USD[oracleLog[x].symbol] = oracleLog[x].usdPrice
              /\ Reach(E, {oracleLog[x].symbol}) \subseteq DOMAIN cycles[k].symbol2USD

\* C8 as stated  Oracle fallback re-seeding: every token connected through the
\* swaps of the batch to a token the oracle priced has a price at the end.
C8_ReseedingThroughAllSwaps == Reseeded(TRUE)

\* C8 as amended  Oracle fallback re-seeding: a token the oracle gave a nonzero
\* price holds it, and every token connected to it through the swaps of the batch
\* whose two token symbols are both present has a price at the end.
C8_ReseedingThroughGraph == Reseeded(FALSE)

\* X is priced by the oracle and Y, linked to X only, is priced from it
C8_Witness ==
  \E k \in DOMAIN cycles :
    /\ cycles[k].pc = "block"
    /\ \E x \in DOMAIN oracleLog, e \in GraphEdges(arrays[cycles[k].swapEvents]) :
         /\ oracleLog[x].usdPrice # Zero
         /\ e.from = oracleLog[x].symbol
         /\ Reach(GraphEdges(arrays[cycles[k].swapEvents]), {e.from}) \cap AnchorSymbols = {}
         /\ cycles[k].symbol2USD[e.to] = times(oracleLog[x].usdPrice, e.ratio)

\* C9  USD fields present iff resolved: at the end of the pricing pass each leg
\* has its unit price and its total value exactly when its token's symbol is in
\* the price map, the unit price being the entry and the total the entry times the
\* leg's amount.
C9_FieldsIffResolved ==
  \A k \in DOMAIN cycles :
    cycles[k].pc \in PricingDone =>
      \A leg \in LegsOf(arrays[cycles[k].swapEvents]) :
        IF Has(cycles[k].symbol2USD, leg.symbol)
        THEN /\ leg.value_in_usd = Some(cycles[k].symbol2USD[leg.symbol])
             /\ leg.total_exchanged_usd = Some(times(cycles[k].symbol2USD[leg.symbol], leg.amount))
        ELSE leg.value_in_usd = None /\ leg.total_exchanged_usd = None

\* the batches of the cycles from position s on, one after the other
RECURSIVE AllBatches(_, _)
AllBatches(cycleStarts, s) ==
  IF s > Len(cycleStarts) THEN <<>>
  ELSE cycleStarts[s].batch \o AllBatches(cycleStarts, s + 1)

Recognized(log) == log.topic0 \in { UNISWAP_V3_SWAP_EVENT, UNISWAP_V2_SWAP_EVENT }

\* the two raw deltas of a log: the two signed amounts, or the in/out amounts in
\* signed-delta form
Deltas(log) ==
  IF log.topic0 = UNISWAP_V3_SWAP_EVENT THEN << log.args.amount0, log.args.amount1 >>
  ELSE IF log.args.amount0In = 0 THEN << -log.args.amount0Out, log.args.amount1In >>
  ELSE << log.args.amount0In, log.args.amount1Out >>

\* side s (0 or 1) of the pool of a log: its token's symbol and decimals, its delta
Side(log, s) ==
  LET address == IF s = 0 THEN PoolTokens[log.address].token0
                 ELSE PoolTokens[log.address].token1
  IN  [symbol |-> TokenMetadata[address].symbol,
       decimals |-> TokenMetadata[address].decimals,
       delta |-> Deltas(log)[s + 1]]

\* amount is value scaled down by the token's decimals
ScaledBy(amount, value, decimals) == times(amount, Decimal(Pow10(decimals), 1)) = Decimal(value, 1)

AllLogs == UNION { Range(arrays[a]) : a \in DOMAIN arrays }

\* C11  Decode normalization: a decoded log whose two raw deltas are nonzero and
\* of opposite sign has a first leg with an amount >= 0, which is the positive
\* delta scaled by its token's decimals, with that side's token; its second leg is
\* the other side's token with the absolute value of the other delta, scaled by
\* that token's decimals.
C11_DecodeNormalization ==
  \A log \in AllLogs :
    /\ Recognized(log) /\ log.token0 # None
    /\ Deltas(log)[1] * Deltas(log)[2] < 0
    => LET lead == IF Deltas(log)[1] > 0 THEN Side(log, 0) ELSE Side(log, 1)
           other == IF Deltas(log)[1] > 0 THEN Side(log, 1) ELSE Side(log, 0)
           leg0 == Val(log.token0)
           leg1 == Val(log.token1)
       IN  /\ leg0.amount.n >= 0 /\ leg0.amount.d > 0
           /\ leg0.symbol = lead.symbol
           /\ ScaledBy(leg0.amount, lead.delta, lead.decimals)
           /\ leg1.symbol = other.symbol
           /\ ScaledBy(leg1.amount, Abs(other.delta), other.decimals)

\* a decoded log whose side-0 delta is negative: side 1 has become the first leg
C11_Witness ==
  \E log \in AllLogs :
    /\ Recognized(log) /\ log.token0 # None
    /\ Deltas(log)[1] < 0 /\ Deltas(log)[2] > 0
    /\ Val(log.token0).symbol = Side(log, 1).symbol
    /\ Side(log, 1).decimals > 0

C17_InOutNormalization ==
  \A k \in DOMAIN cycles :
    LET c == cycles[k]
        arr == arrays[logs]
        at == IF c.pc \in {"pair", "tok0", "tok1"} THEN c.i + 1 ELSE c.i
    IN  /\ c.pc \in {"loop", "pair", "tok0", "tok1", "fill"}
        /\ at \in DOMAIN arr
        /\ arr[at].topic0 = UNISWAP_V2_SWAP_EVENT
        => LET a == arr[at].args
           IN  IF a.amount0In = 0
               THEN c.amount0 = Some(-a.amount0Out) /\ c.amount1 = Some(a.amount1In)
               ELSE c.amount0 = Some(a.amount0In) /\ c.amount1 = Some(a.amount1Out)

\* both branches have been taken in one batch, and the logs are decoded
C17_Witness ==
  \E k \in DOMAIN cycles :
    LET arr == arrays[logs]
    IN  /\ cycles[k].pc = "fill" /\ Len(arr) = 2
        /\ arr[1].topic0 = UNISWAP_V2_SWAP_EVENT /\ arr[1].args.amount0In = 0
        /\ arr[2].topic0 = UNISWAP_V2_SWAP_EVENT /\ arr[2].args.amount0In # 0
        /\ Val(arr[1].token1).amount.n = 30
        /\ cycles[k].amount1 = Some(7)

\* ---- the metadata cache
\* a log needs the pool and the tokens the call was made for
DependsOn(log, lookup) ==
  \/ lookup.pool = log.address
  \/ /\ lookup.kind = "token"
     /\ lookup.address \in { PoolTokens[log.address].token0, PoolTokens[log.address].token1 }

SameKey(l1, l2) == l1.kind = l2.kind /\ l1.address = l2.address

\* C13  Metadata failure is isolated: once the cycle in which a pair or token
\* lookup failed is over, every log of its batch that does not depend on the
\* failed lookup is decoded and was handed to persistence.
C13_MetadataFailureIsolated ==
  \A x \in DOMAIN lookups :
    lookups[x].result = "failed" /\ cycles = <<>> =>
      \A log \in Range(arrays[logs]) :
        ~DependsOn(log, lookups[x]) =>
          /\ log.token0 # None /\ log.token1 # None
          /\ \E r \in DOMAIN dbRows : dbRows[r].id = log.id

\* C14  Memoized, single-lookup cache: a lookup for an address is only ever made
\* when every earlier lookup for that address has failed (none is in flight, none
\* has succeeded); a token whose lookup succeeded is in the token cache, and the
\* entries of the caches are the identities the lookups returned.
C14_MemoizedSingleLookup ==
  /\ \A x, y \in DOMAIN lookups :
       x < y /\ SameKey(lookups[x], lookups[y]) => lookups[x].result = "failed"
  /\ \A x \in DOMAIN lookups :
       lookups[x].kind = "token" /\ lookups[x].result = "ok" =>
         /\ Has(tokens, lookups[x].address)
         /\ tokens[lookups[x].address] = Token(TokenMetadata[lookups[x].address])
  /\ \A a \in DOMAIN pairTokens :
       /\ \E x \in DOMAIN lookups : lookups[x] = [PairLookup(a) EXCEPT !.result = "ok"]
       /\ pairTokens[a] = [token0 |-> tokens[PoolTokens[a].token0],
                           token1 |-> tokens[PoolTokens[a].token1]]

\* the second cycle has decoded a log of a pool that the first cycle looked up
C14_Witness ==
  /\ Len(started) >= 2
  /\ \E k \in DOMAIN cycles :
       /\ cycles[k].pc = "fill"
       /\ \E log \in Range(arrays[logs]) :
            /\ log.token0 # None
            /\ \E id \in Range(started[1].batch), a \in DOMAIN arrays :
                 \E first \in Range(arrays[a]) : first.id = id /\ first.address = log.address

\* C15  A failed lookup does not poison the cache: after a failed pair or token
\* lookup that no successful one followed, the pool it was made for has no pair
\* entry and the token has no token entry; and the resolve of a pool without a
\* pair entry performs the external lookup.
C15_FailedLookupNotCached ==
  /\ [](\A x \in DOMAIN lookups :
          /\ lookups[x].result = "failed"
          /\ ~\E y \in DOMAIN lookups :
                y > x /\ SameKey(lookups[x], lookups[y]) /\ lookups[y].result = "ok"
          => /\ ~Has(pairTokens, lookups[x].pool)
             /\ lookups[x].kind = "token" => ~Has(tokens, lookups[x].address))
  /\ [][\A k \in DOMAIN cycles :
          /\ cycles[k].pc = "loop"
          /\ cycles[k].i < Len(arrays[logs])
          /\ ~Has(pairTokens, arrays[logs][cycles[k].i + 1].address)
          => lookups' = Append(lookups, PairLookup(arrays[logs][cycles[k].i + 1].address))]_vars

\* the lookup of a pool's second token failed after its first token was cached
C15_Witness ==
  \E x \in DOMAIN lookups :
    /\ lookups[x].kind = "token" /\ lookups[x].result = "failed"
    /\ lookups[x].address = PoolTokens[lookups[x].pool].token1
    /\ Has(tokens, PoolTokens[lookups[x].pool].token0)
    /\ cycles = <<>>

\* C19  Append-only metadata cache: in every step, every entry of the pair cache
\* and of the token cache is still there afterwards, unchanged.
C19_AppendOnlyCache ==
  [][/\ \A a \in DOMAIN pairTokens : Has(pairTokens', a) /\ pairTokens'[a] = pairTokens[a]
     /\ \A a \in DOMAIN tokens : Has(tokens', a) /\ tokens'[a] = tokens[a]]_vars

\* the second cycle has added a pool to the cache the first cycle filled
C19_Witness ==
  /\ Len(started) >= 2
  /\ Cardinality(DOMAIN pairTokens) = 2
  /\ Cardinality(DOMAIN tokens) = 3

\* C20  Flag consistency: PARSING and ARRIVING are never both true, a timer is
\* pending only while ARRIVING is true and PARSING is false, and a cycle only
\* starts while no cycle is running.
C20_FlagConsistency ==
  /\ [](/\ ~(PARSING /\ ARRIVING)
        /\ pending # {} => ARRIVING /\ ~PARSING)
  /\ [][Len(started') > Len(started) => cycles = <<>>]_vars

\* a timer is pending for a burst that came after a cycle has ended
C20_Witness == pending # {} /\ started # <<>> /\ ARRIVING

\* ---- the order of the swaps
Orders(n) == { p \in [1..n -> 1..n] : \A x, y \in 1..n : p[x] = p[y] => x = y }
Permuted(swapEvents, p) == [x \in DOMAIN swapEvents |-> swapEvents[p[x]]]

\* the oracles (one fixed answer per token) that answer as the oracle of this run did
OraclesOfRun(swapEvents) ==
  LET symbols == { Val(swapEvents[x].token0).symbol : x \in DOMAIN swapEvents } \ AnchorSymbols
  IN  { f \in [symbols -> OraclePrices \cup {Zero}] :
          \A x \in DOMAIN oracleLog : f[oracleLog[x].symbol] = oracleLog[x].usdPrice }

\* every token of the batch is an anchor or has exactly one path from the anchors
OnePathEach(swapEvents) ==
  \A leg \in LegsOf(swapEvents) :
    \/ leg.symbol \in AnchorSymbols
    \/ PathCount(GraphEdges(swapEvents), leg.symbol, {}) = 1

\* at the end of the pricing pass the price map is the one fillUSDAmounts computes
\* for every permutation of the batch, the oracle answering the same; for every
\* batch, or only (onePathOnly) for the batches of OnePathEach
OrderIndependent(onePathOnly) ==
  \A k \in DOMAIN cycles :
    LET swapEvents == arrays[cycles[k].swapEvents]
    IN  /\ cycles[k].pc \in PricingDone
        /\ onePathOnly => OnePathEach(swapEvents)
        => \A p \in Orders(Len(swapEvents)), oracle \in OraclesOfRun(swapEvents) :
             priceUSD(Permuted(swapEvents, p), Val(cycles[k].ETH_LATEST_PRICE), oracle)
               = cycles[k].symbol2USD

\* C16 as stated  Order independence of pricing: the price map of a batch is the
\* same for every permutation of its swaps, also when a token has several paths or
\* a pair is swapped several times with different ratios.
C16_OrderIndependence == OrderIndependent(FALSE)

\* C16 as amended  Order independence of pricing: the price map of a batch is the
\* same for every permutation of its swaps when every token of the batch is an
\* anchor or is reached from the anchors by exactly one path of swap edges.
C16_OrderIndependenceOnePath == OrderIndependent(TRUE)

\* the batch X->Y, USDC->X, Y two swaps away from the anchor, priced
C16_Witness ==
  \E k \in DOMAIN cycles :
    LET swapEvents == arrays[cycles[k].swapEvents]
    IN  /\ cycles[k].pc = "block"
        /\ Len(swapEvents) = 2
        /\ IsSwap(swapEvents[1], "X", 3, "Y", 1)
        /\ IsSwap(swapEvents[2], "USDC", 2, "X", 1)
        /\ OnePathEach(swapEvents)
        /\ cycles[k].symbol2USD["Y"] = Decimal(6, 1)

\* C18  Leg-0-only fallback: the oracle is only awaited for the first-leg token
\* of the swap being visited, and only when that token has no price; the visit of
\* a swap whose first leg is priced makes no oracle query and leaves the USD
\* fields of an unpriced second leg absent; the fields of a visited swap do not
\* change afterwards.
C18_LegZeroOnlyFallback ==
  /\ [](\A k \in DOMAIN cycles :
          cycles[k].pc = "oracle" =>
            LET symbol == Val(arrays[cycles[k].swapEvents][cycles[k].k + 1].token0).symbol
            IN  cycles[k].stack = << symbol >> /\ ~Has(cycles[k].symbol2USD, symbol))
  /\ [][\A k \in DOMAIN cycles \cap DOMAIN cycles' :
          LET c == cycles[k]
              swapEvents == arrays[c.swapEvents]
          IN  /\ (c.pc = "price" /\ c.k < Len(swapEvents)
                    /\ Has(c.symbol2USD, Val(swapEvents[c.k + 1].token0).symbol))
                  => /\ cycles'[k].pc = "price" /\ cycles'[k].k = c.k + 1
                     /\ oracleLog' = oracleLog
                     /\ ~Has(c.symbol2USD, Val(swapEvents[c.k + 1].token1).symbol)
                        => /\ Val(arrays'[c.swapEvents][c.k + 1].token1).value_in_usd = None
                           /\ Val(arrays'[c.swapEvents][c.k + 1].token1).total_exchanged_usd = None
              /\ c.pc \in PastFirstTraversal
                  => \A x \in 1..c.k : arrays'[c.swapEvents][x] = swapEvents[x]]_vars

\* a swap with a priced first leg and a second leg that stayed without USD fields,
\* and no oracle query in the whole batch
C18_Witness ==
  \E k \in DOMAIN cycles :
    /\ cycles[k].pc = "block"
    /\ oracleLog = <<>>
    /\ \E se \in Range(arrays[cycles[k].swapEvents]) :
         /\ Val(se.token0).value_in_usd # None
         /\ Val(se.token1).value_in_usd = None
         /\ ~Has(cycles[k].symbol2USD, Val(se.token1).symbol)

\* ---- the batches
\* the cycles that started after log id arrived
StartedAfter(id) == { s \in DOMAIN started : started[s].t > arrivals[id].t }

\* C21  No log is processed twice and no batch is empty: a log that arrived while
\* no cycle was running is in no batch of a cycle that started before it came, in
\* at most one batch, and, once a cycle has started after it came, in the batch of
\* the first such cycle; every batch has at least one log and no log twice.
C21_NoLogTwiceNoEmptyBatch ==
  /\ \A id \in DOMAIN arrivals :
       ~arrivals[id].running =>
         /\ BatchesOf(id) \subseteq StartedAfter(id)
         /\ Cardinality(BatchesOf(id)) <= 1
         /\ \A s \in StartedAfter(id) :
              (\A s2 \in StartedAfter(id) : s <= s2) => id \in Range(started[s].batch)
  /\ \A s \in DOMAIN started :
       LET batch == started[s].batch
       IN  /\ batch # <<>>
           /\ \A x, y \in DOMAIN batch : batch[x] = batch[y] => x = y

\* a second batch has started, with a log that came after the first cycle ended,
\* and both batches are kept apart
C21_Witness ==
  /\ Len(started) = 2
  /\ Len(started[1].batch) = 2
  /\ \E id \in Range(started[2].batch) :
       ~arrivals[id].running /\ arrivals[id].t >= started[1].t

\* ---- the priced set
\* C22  Priced set is closed under swap edges: at the end of the pricing pass,
\* for every swap of the batch whose two token symbols are both present, both
\* tokens have a price in the price map or neither has.
C22_PricedSetClosed ==
  \A k \in DOMAIN cycles :
    cycles[k].pc \in PricingDone =>
      \A se \in Range(arrays[cycles[k].swapEvents]) :
        BothSymbols(se) =>
          (Has(cycles[k].symbol2USD, Val(se.token0).symbol)
             <=> Has(cycles[k].symbol2USD, Val(se.token1).symbol))

\* two swaps away from every anchor, Y -> X and X -> Y: the oracle was asked for Y
\* only, and all four legs are priced
C22_Witness ==
  \E k \in DOMAIN cycles :
    LET swapEvents == arrays[cycles[k].swapEvents]
    IN  /\ cycles[k].pc = "block"
        /\ Len(swapEvents) = 2
        /\ Val(swapEvents[1].token0).symbol = "Y" /\ Val(swapEvents[1].token1).symbol = "X"
        /\ Val(swapEvents[2].token0).symbol = "X" /\ Val(swapEvents[2].token1).symbol = "Y"
        /\ Len(oracleLog) = 1 /\ oracleLog[1].symbol = "Y"
        /\ Has(cycles[k].symbol2USD, "X") /\ Has(cycles[k].symbol2USD, "Y")

\* ---- the worklist
InTraversal == { "traverse", "retraverse" }

\* the symbols a step of a cycle pushes on the stack: what the stack holds beyond
\* what it held (a step of a traversal first pops one)
Pushed(c, c2) ==
  LET kept == IF c.pc \in InTraversal THEN Len(c.stack) - 1 ELSE Len(c.stack)
  IN  SubSeq(c2.stack, kept + 1, Len(c2.stack))

====
